---- MODULE Spec2Model ----
(***************************************************************************)
(* A model of src/project3.py: a Flask service over three MySQL tables     *)
(* (users, orders, products) and the order_product association table,      *)
(* accessed through a SQLAlchemy session and marshmallow schemas.          *)
(*                                                                         *)
(* The store is the record db.  A handler is one action: it validates the  *)
(* payload, builds the SQL statements its unit of work flushes, commits    *)
(* them against the tables' constraints and answers.  An optional value   *)
(* (a payload key, a column value) is <<>> when absent and <<v>> when      *)
(* present.                                                                *)
(***************************************************************************)
EXTENDS Integers, Sequences, FiniteSets, Bags, TLC

(***************************************************************************)
(* Bounds of the model.                                                    *)
(***************************************************************************)
MaxUsers == 2
MaxOrders == 1
MaxProducts == 1
Workers == 2
MaxTxOrders == 2

(***************************************************************************)
(* Column sizes and validator limits of the source.                        *)
(***************************************************************************)
AddressMin == 5
AddressMax == 150

None == <<>>
Some(v) == <<v>>
Present(o) == o # <<>>
Val(o) == o[1]
Opt(S) == {None} \cup {Some(v) : v \in S}

RECURSIVE Rep(_)
Rep(n) == IF n = 0 THEN "" ELSE "x" \o Rep(n - 1)

(***************************************************************************)
(* Input domains.  A name and an address are strings; an email is the      *)
(* sequence of its characters, so that its syntax can be inspected.  The   *)
(* names are within the column's String(100), the model has no over-long   *)
(* name; a payload carries the keys name, address and email only.          *)
(***************************************************************************)
Names == {"Ann"}
Addresses == {"Elm", "1 Elm Street", "9 Oak Avenue", Rep(AddressMax + 1)}
Emails == {<<"a", "@", "b", ".", "c">>, <<"z", "@", "b", ".", "c">>, <<"a", "b", ".", "c">>}
ProductNames == {"Widget", "Gadget"}
Prices == {10}
UserIds == 1..MaxUsers
OrderIds == 1..MaxOrders
ProductIds == 1..MaxProducts

UserPayloads == [name : Opt(Names), address : Opt(Addresses), email : Opt(Emails)]
ProductPayloads == [product_name : Opt(ProductNames), price : Opt(Prices)]
OrderPayloads == [user_id : Opt(UserIds)]

UserFields == {"name", "address", "email"}
ProductFields == {"product_name", "price"}
OrderFields == {"user_id"}

(***************************************************************************)
(* marshmallow.validate.Email: the text after the last "@" is the domain,  *)
(* the text before it the user part; the user part is a non-empty run of   *)
(* atom characters, the domain is dot-separated non-empty labels, at       *)
(* least two of them.                                                      *)
(***************************************************************************)
AtomChars == {"a", "b", "c", "z"}
UserPartOk(u) == Len(u) > 0 /\ \A i \in 1..Len(u) : u[i] \in AtomChars
DomainOk(d) ==
    /\ Len(d) > 0
    /\ d[1] # "." /\ d[Len(d)] # "."
    /\ \E i \in 1..Len(d) : d[i] = "."
    /\ \A i \in 1..Len(d) : d[i] \in AtomChars \cup {"."}
    /\ \A i \in 1..(Len(d) - 1) : ~(d[i] = "." /\ d[i + 1] = ".")
EmailOk(e) ==
    \E i \in 1..Len(e) :
        /\ e[i] = "@"
        /\ \A j \in (i + 1)..Len(e) : e[j] # "@"
        /\ UserPartOk(SubSeq(e, 1, i - 1))
        /\ DomainOk(SubSeq(e, i + 1, Len(e)))

(***************************************************************************)
(* Schema.load: the fields with an error, each with its message.  A field  *)
(* is required when its declaration says so: UserSchema declares email     *)
(* with required=True and address without it, and the generated name       *)
(* field is required because the column is NOT NULL without a default.     *)
(* partial=True drops the required checks.                                 *)
(***************************************************************************)
UserRequired == {"name", "email"}
ProductRequired == {"product_name", "price"}
OrderRequired == {"user_id"}

UserFieldError(f, p) ==
    CASE f = "name" -> ""
      [] f = "address" ->
            IF Len(Val(p.address)) < AddressMin \/ Len(Val(p.address)) > AddressMax
            THEN "Length must be between 5 and 150." ELSE ""
      [] f = "email" -> IF EmailOk(Val(p.email)) THEN "" ELSE "Not a valid email address."

MissingIgnoringPartial(required, p, partial) == {f \in required : ~Present(p[f])}

Missing(required, p, partial) ==
    IF partial THEN {} ELSE {f \in required : ~Present(p[f])}

UserErrors(p, partial) ==
    LET missing == Missing(UserRequired, p, partial)
        invalid == {f \in UserFields : Present(p[f]) /\ UserFieldError(f, p) # ""}
    IN  [f \in missing \cup invalid |->
            IF f \in missing THEN "Missing data for required field." ELSE UserFieldError(f, p)]

ProductErrors(p, partial) ==
    [f \in Missing(ProductRequired, p, partial) |-> "Missing data for required field."]

OrderErrors(p) ==
    [f \in Missing(OrderRequired, p, FALSE) |-> "Missing data for required field."]

NoErrors(errs) == DOMAIN errs = {}

(***************************************************************************)
(* The store: users, orders and products map an id to its row,             *)
(* order_product is the bag of its (order_id, product_id) rows, and        *)
(* next_* are the AUTO_INCREMENT counters.  Every column of the three      *)
(* entity tables is NOT NULL, so a stored row has a value in every column. *)
(* An id is never given twice; a refused INSERT leaves the counter where   *)
(* it was (the engine may skip a value there: only freshness matters).     *)
(* order_date, which the database fills in, is left out of the order row.  *)
(***************************************************************************)
EmptyTable == [i \in {} |-> 0]
EmptyDb ==
    [users |-> EmptyTable, orders |-> EmptyTable, products |-> EmptyTable,
     order_product |-> EmptyBag, next_user |-> 1, next_order |-> 1, next_product |-> 1]

Without(table, id) == [i \in DOMAIN table \ {id} |-> table[i]]
With(table, id, row) == [i \in DOMAIN table \cup {id} |-> IF i = id THEN row ELSE table[i]]

(***************************************************************************)
(* The constraints the table definitions declare.                          *)
(***************************************************************************)
NotNullOk(row) == \A c \in DOMAIN row : Present(row[c])

EmailNotUnique(d, id, email) == TRUE

EmailUniqueOk(d, id, email) == \A u \in DOMAIN d.users \ {id} : d.users[u].email # email

OrderUserFkIgnored(d, user_id) == TRUE

OrderUserFkOk(d, user_id) == user_id \in DOMAIN d.users

LinkPkOk(d, o, p) == ~BagIn(<<o, p>>, d.order_product)

LinkFkOk(d, o, p) == o \in DOMAIN d.orders /\ p \in DOMAIN d.products

UserUnreferenced(d, id) == \A o \in DOMAIN d.orders : d.orders[o].user_id # id

ProductUnreferenced(d, id) == \A l \in BagToSet(d.order_product) : l[2] # id

(***************************************************************************)
(* The SQL statements a flush emits, and what each does to the store:      *)
(* [ok |-> TRUE, db |-> the store after it], or ok = FALSE when the        *)
(* database refuses it (an IntegrityError) or the row it expects is gone   *)
(* (a StaleDataError).                                                     *)
(***************************************************************************)
Refused(d) == [ok |-> FALSE, db |-> d]
Done(d) == [ok |-> TRUE, db |-> d]
Unwrap(row) == [c \in DOMAIN row |-> Val(row[c])]
Merge(old, set) == [c \in DOMAIN old |-> IF Present(set[c]) THEN Val(set[c]) ELSE old[c]]

InsertUser(s, d) ==
    IF NotNullOk(s.row) /\ EmailUniqueOk(d, 0, Val(s.row.email))
    THEN Done([d EXCEPT !.users = With(d.users, d.next_user, Unwrap(s.row)),
                        !.next_user = d.next_user + 1])
    ELSE Refused(d)

UpdateUser(s, d) ==
    IF s.id \in DOMAIN d.users
       /\ (Present(s.set.email) => EmailUniqueOk(d, s.id, Val(s.set.email)))
    THEN Done([d EXCEPT !.users = With(d.users, s.id, Merge(d.users[s.id], s.set))])
    ELSE Refused(d)

DeleteUser(s, d) ==
    IF UserUnreferenced(d, s.id)
    THEN Done([d EXCEPT !.users = Without(d.users, s.id)])
    ELSE Refused(d)

UpdateOrder(s, d) ==
    IF s.id \in DOMAIN d.orders /\ NotNullOk(s.set)
       /\ OrderUserFkOk(d, Val(s.set.user_id))
    THEN Done([d EXCEPT !.orders = With(d.orders, s.id, Unwrap(s.set))])
    ELSE Refused(d)

InsertOrderUnchecked(s, d) ==
    IF NotNullOk(s.row)
    THEN [ok |-> TRUE,
          db |-> [d EXCEPT !.orders = With(d.orders, d.next_order, Unwrap(s.row)),
                           !.next_order = d.next_order + 1]]
    ELSE [ok |-> FALSE, db |-> d]

InsertOrder(s, d) ==
    IF NotNullOk(s.row) /\ OrderUserFkOk(d, Val(s.row.user_id))
    THEN Done([d EXCEPT !.orders = With(d.orders, d.next_order, Unwrap(s.row)),
                        !.next_order = d.next_order + 1])
    ELSE Refused(d)

InsertProduct(s, d) ==
    IF NotNullOk(s.row)
    THEN Done([d EXCEPT !.products = With(d.products, d.next_product, Unwrap(s.row)),
                        !.next_product = d.next_product + 1])
    ELSE Refused(d)

UpdateProduct(s, d) ==
    IF s.id \in DOMAIN d.products
    THEN Done([d EXCEPT !.products = With(d.products, s.id, Merge(d.products[s.id], s.set))])
    ELSE Refused(d)

DeleteProduct(s, d) ==
    IF ProductUnreferenced(d, s.id)
    THEN Done([d EXCEPT !.products = Without(d.products, s.id)])
    ELSE Refused(d)

InsertLink(s, d) ==
    IF LinkPkOk(d, s.order_id, s.product_id) /\ LinkFkOk(d, s.order_id, s.product_id)
    THEN Done([d EXCEPT !.order_product = @ (+) SetToBag({<<s.order_id, s.product_id>>})])
    ELSE Refused(d)

DeleteLink(s, d) ==
    IF BagIn(<<s.order_id, s.product_id>>, d.order_product)
    THEN Done([d EXCEPT !.order_product = @ (-) SetToBag({<<s.order_id, s.product_id>>})])
    ELSE Refused(d)

Exec(s, d) ==
    CASE s.k = "insert_user" -> InsertUser(s, d)
      [] s.k = "update_user" -> UpdateUser(s, d)
      [] s.k = "delete_user" -> DeleteUser(s, d)
      [] s.k = "update_order" -> UpdateOrder(s, d)
      [] s.k = "insert_order" -> InsertOrder(s, d)
      [] s.k = "insert_product" -> InsertProduct(s, d)
      [] s.k = "update_product" -> UpdateProduct(s, d)
      [] s.k = "delete_product" -> DeleteProduct(s, d)
      [] s.k = "insert_link" -> InsertLink(s, d)
      [] s.k = "delete_link" -> DeleteLink(s, d)

(***************************************************************************)
(* db.session.commit(): the pending statements run in one transaction;     *)
(* the first one refused raises out of commit() and the transaction is     *)
(* rolled back when the request's session is removed.                      *)
(***************************************************************************)
RECURSIVE Replay(_, _)
Replay(stmts, d) ==
    IF stmts = <<>> THEN Done(d)
    ELSE LET r == Exec(Head(stmts), d)
         IN  IF r.ok THEN Replay(Tail(stmts), r.db) ELSE Refused(d)

Commit(stmts, d) ==
    LET r == Replay(stmts, d)
    IN  IF r.ok THEN r ELSE Refused(d)

(***************************************************************************)
(* Schema.dump: the truncated nested representations.                      *)
(***************************************************************************)
Linked(d, o, p) == BagIn(<<o, p>>, d.order_product)

OrdersOfAnyUser(d, u) == DOMAIN d.orders

OrdersOfUser(d, u) == {o \in DOMAIN d.orders : d.orders[o].user_id = u}

OrdersOfProduct(d, p) == {o \in DOMAIN d.orders : Linked(d, o, p)}

ProductItem(d, p) ==
    [id |-> p, product_name |-> d.products[p].product_name, price |-> d.products[p].price]

ProductsOf(d, o) ==
    LET items == {ProductItem(d, p) : p \in {q \in DOMAIN d.products : Linked(d, o, q)}}
    IN  [it \in items |-> CopiesIn(<<o, it.id>>, d.order_product)]

DumpUser(d, u) ==
    [kind |-> "user", id |-> u, name |-> d.users[u].name, address |-> d.users[u].address,
     email |-> d.users[u].email, orders |-> OrdersOfUser(d, u)]

DumpOrder(d, o) ==
    LET u == d.orders[o].user_id
    IN  [kind |-> "order", id |-> o, user_id |-> u,
         user |-> IF u \in DOMAIN d.users
                  THEN Some([id |-> u, name |-> d.users[u].name, email |-> d.users[u].email])
                  ELSE None,
         products |-> ProductsOf(d, o)]

DumpProduct(d, p) ==
    [kind |-> "product", id |-> p, product_name |-> d.products[p].product_name,
     price |-> d.products[p].price, orders |-> OrdersOfProduct(d, p)]

ErrorsBody(errs) == [kind |-> "errors", errors |-> errs]
ErrorBody(msg) == [kind |-> "error", error |-> msg]
MessageBody(msg, id) == [kind |-> "message", message |-> msg, id |-> id]
SetBody(items) == [kind |-> "set", items |-> items]
ServerError(e) == [kind |-> "server_error", error |-> e]

(***************************************************************************)
(* jsonify: a dict or a list is serialised; a set is not, and the          *)
(* TypeError it raises reaches the client as a 500.                        *)
(***************************************************************************)
Serializable(body) == body.kind # "set"

Reply(status, body) ==
    IF Serializable(body) THEN [status |-> status, body |-> body]
    ELSE [status |-> 500, body |-> ServerError("TypeError")]

RECURSIVE SortedSeq(_)
SortedSeq(S) ==
    IF S = {} THEN <<>>
    ELSE LET m == CHOOSE x \in S : \A y \in S : x <= y
         IN  <<m>> \o SortedSeq(S \ {m})

(***************************************************************************)
(* What each handler's unit of work flushes at commit.                     *)
(***************************************************************************)
Changed(old, p) ==
    [c \in DOMAIN old |-> IF Present(p[c]) /\ Val(p[c]) # old[c] THEN p[c] ELSE None]

CreateUserStmts(p) == <<[k |-> "insert_user", row |-> p]>>

UpdateUserStmts(d, u, p) ==
    LET set == Changed(d.users[u], p)
    IN  IF \A c \in DOMAIN set : set[c] = None THEN <<>>
        ELSE <<[k |-> "update_user", id |-> u, set |-> set]>>

Orphan(o) == [k |-> "update_order", id |-> o, set |-> [user_id |-> None]]

DeleteUserStmts(d, u) ==
    LET os == SortedSeq(OrdersOfUser(d, u))
    IN  [i \in 1..Len(os) |-> Orphan(os[i])] \o <<[k |-> "delete_user", id |-> u]>>

CreateProductStmts(p) == <<[k |-> "insert_product", row |-> p]>>

UpdateProductStmts(d, id, p) ==
    LET set == Changed(d.products[id], p)
    IN  IF \A c \in DOMAIN set : set[c] = None THEN <<>>
        ELSE <<[k |-> "update_product", id |-> id, set |-> set]>>

Unlink(o, p) == [k |-> "delete_link", order_id |-> o, product_id |-> p]

DeleteProductStmts(d, p) ==
    LET os == SortedSeq(OrdersOfProduct(d, p))
    IN  [i \in 1..Len(os) |-> Unlink(os[i], p)] \o <<[k |-> "delete_product", id |-> p]>>

CreateOrderStmts(p) == <<[k |-> "insert_order", row |-> p]>>

AddProductAlways(d, o, p) == <<[k |-> "insert_link", order_id |-> o, product_id |-> p]>>

AddProductStmts(d, o, p) ==
    IF ~Linked(d, o, p)
    THEN <<[k |-> "insert_link", order_id |-> o, product_id |-> p]>>
    ELSE <<>>

RemoveProductAlways(d, o, p) == <<[k |-> "delete_link", order_id |-> o, product_id |-> p]>>

RemoveProductStmts(d, o, p) ==
    IF Linked(d, o, p) THEN <<Unlink(o, p)>> ELSE <<>>

VARIABLES db, req, resp, txlog, created, session, answered

vars == <<db, req, resp, txlog, created, session, answered>>

WorkerIds == 1..Workers
Idle == [state |-> "idle"]

Init ==
    /\ db = EmptyDb
    /\ req = [op |-> "start"]
    /\ resp = [status |-> 0, body |-> MessageBody("", 0)]
    /\ txlog = <<>>
    /\ created = 0
    /\ session = [w \in WorkerIds |-> Idle]
    /\ answered = [worker |-> 0, status |-> 0, flushed |-> 0]

(***************************************************************************)
(* A request r answered with a status and a body after its unit of work    *)
(* stmts was committed, leaving the store d.  txlog keeps the statements   *)
(* of the last request's transaction; created is the id of the user that   *)
(* the request before the last one created (0 when it created none).      *)
(***************************************************************************)
Answer(r, status, body, stmts, d) ==
    /\ req' = r
    /\ resp' = Reply(status, body)
    /\ txlog' = stmts
    /\ db' = d
    /\ created' = IF req.op = "create_user" /\ resp.status = 200 THEN resp.body.id ELSE 0
    /\ UNCHANGED <<session, answered>>

Fail(r, stmts) == Answer(r, 500, ServerError("IntegrityError"), stmts, db)

get_users ==
    Answer([op |-> "get_users"], 200,
           [kind |-> "users", items |-> [u \in DOMAIN db.users |-> DumpUser(db, u)]],
           <<>>, db)

get_user(user_id) ==
    LET r == [op |-> "get_user", user_id |-> user_id]
    IN  IF user_id \notin DOMAIN db.users
        THEN Answer(r, 400, SetBody({"User not found"}), <<>>, db)
        ELSE Answer(r, 200, DumpUser(db, user_id), <<>>, db)

create_user(payload) ==
    LET r == [op |-> "create_user", payload |-> payload]
        errs == UserErrors(payload, FALSE)
        stmts == CreateUserStmts(payload)
        c == Commit(stmts, db)
    IN  /\ db.next_user <= MaxUsers
        /\ IF ~NoErrors(errs) THEN Answer(r, 400, ErrorsBody(errs), <<>>, db)
           ELSE IF ~c.ok THEN Fail(r, stmts)
           ELSE Answer(r, 200, DumpUser(c.db, db.next_user), stmts, c.db)

update_user(user_id, payload) ==
    LET r == [op |-> "update_user", user_id |-> user_id, payload |-> payload]
        errs == UserErrors(payload, TRUE)
        stmts == UpdateUserStmts(db, user_id, payload)
        c == Commit(stmts, db)
    IN  IF user_id \notin DOMAIN db.users
        THEN Answer(r, 400, ErrorBody("User not found"), <<>>, db)
        ELSE IF ~NoErrors(errs) THEN Answer(r, 400, ErrorsBody(errs), <<>>, db)
        ELSE IF ~c.ok THEN Fail(r, stmts)
        ELSE Answer(r, 200, DumpUser(c.db, user_id), stmts, c.db)

delete_user(user_id) ==
    LET r == [op |-> "delete_user", user_id |-> user_id]
        stmts == DeleteUserStmts(db, user_id)
        c == Commit(stmts, db)
    IN  IF user_id \notin DOMAIN db.users
        THEN Answer(r, 400, ErrorBody("User not found"), <<>>, db)
        ELSE IF ~c.ok THEN Fail(r, stmts)
        ELSE Answer(r, 200, MessageBody("User deleted", user_id), stmts, c.db)

get_products ==
    Answer([op |-> "get_products"], 200,
           [kind |-> "products", items |-> [p \in DOMAIN db.products |-> DumpProduct(db, p)]],
           <<>>, db)

get_product(product_id) ==
    LET r == [op |-> "get_product", product_id |-> product_id]
    IN  IF product_id \notin DOMAIN db.products
        THEN Answer(r, 404, ErrorBody("Product not found"), <<>>, db)
        ELSE Answer(r, 200, DumpProduct(db, product_id), <<>>, db)

create_product(payload) ==
    LET r == [op |-> "create_product", payload |-> payload]
        errs == ProductErrors(payload, FALSE)
        stmts == CreateProductStmts(payload)
        c == Commit(stmts, db)
    IN  /\ db.next_product <= MaxProducts
        /\ IF ~NoErrors(errs) THEN Answer(r, 400, ErrorsBody(errs), <<>>, db)
           ELSE IF ~c.ok THEN Fail(r, stmts)
           ELSE Answer(r, 200, DumpProduct(c.db, db.next_product), stmts, c.db)

update_product(product_id, payload) ==
    LET r == [op |-> "update_product", product_id |-> product_id, payload |-> payload]
        errs == ProductErrors(payload, TRUE)
        stmts == UpdateProductStmts(db, product_id, payload)
        c == Commit(stmts, db)
    IN  IF product_id \notin DOMAIN db.products
        THEN Answer(r, 400, ErrorBody("Product not found"), <<>>, db)
        ELSE IF ~NoErrors(errs) THEN Answer(r, 400, ErrorsBody(errs), <<>>, db)
        ELSE IF ~c.ok THEN Fail(r, stmts)
        ELSE Answer(r, 200, DumpProduct(c.db, product_id), stmts, c.db)

delete_product(product_id) ==
    LET r == [op |-> "delete_product", product_id |-> product_id]
        stmts == DeleteProductStmts(db, product_id)
        c == Commit(stmts, db)
    IN  IF product_id \notin DOMAIN db.products
        THEN Answer(r, 404, ErrorBody("Product not found"), <<>>, db)
        ELSE IF ~c.ok THEN Fail(r, stmts)
        ELSE Answer(r, 200, MessageBody("Product deleted", product_id), stmts, c.db)

create_order(payload) ==
    LET r == [op |-> "create_order", payload |-> payload]
        errs == OrderErrors(payload)
        stmts == CreateOrderStmts(payload)
        c == Commit(stmts, db)
    IN  /\ db.next_order <= MaxOrders
        /\ IF ~NoErrors(errs) THEN Answer(r, 400, ErrorsBody(errs), <<>>, db)
           ELSE IF ~c.ok THEN Fail(r, stmts)
           ELSE Answer(r, 201, DumpOrder(c.db, db.next_order), stmts, c.db)

add_product_to_order(order_id, product_id) ==
    LET r == [op |-> "add_product_to_order", order_id |-> order_id, product_id |-> product_id]
        stmts == AddProductStmts(db, order_id, product_id)
        c == Commit(stmts, db)
    IN  IF order_id \notin DOMAIN db.orders \/ product_id \notin DOMAIN db.products
        THEN Answer(r, 400, ErrorBody("Order or product not found"), <<>>, db)
        ELSE IF ~c.ok THEN Fail(r, stmts)
        ELSE Answer(r, 200, DumpOrder(c.db, order_id), stmts, c.db)

remove_product_from_order(order_id, product_id) ==
    LET r == [op |-> "remove_product_from_order", order_id |-> order_id,
              product_id |-> product_id]
        stmts == RemoveProductStmts(db, order_id, product_id)
        c == Commit(stmts, db)
    IN  IF order_id \notin DOMAIN db.orders \/ product_id \notin DOMAIN db.products
        THEN Answer(r, 404, ErrorBody("Order or product not found"), <<>>, db)
        ELSE IF ~c.ok THEN Fail(r, stmts)
        ELSE Answer(r, 200, DumpOrder(c.db, order_id), stmts, c.db)

get_orders_by_user(user_id) ==
    LET r == [op |-> "get_orders_by_user", user_id |-> user_id]
    IN  IF user_id \notin DOMAIN db.users
        THEN Answer(r, 404, ErrorBody("User not found"), <<>>, db)
        ELSE Answer(r, 200,
                    [kind |-> "orders",
                     items |-> [o \in OrdersOfUser(db, user_id) |-> DumpOrder(db, o)]],
                    <<>>, db)

get_products_in_order(order_id) ==
    LET r == [op |-> "get_products_in_order", order_id |-> order_id]
    IN  IF order_id \notin DOMAIN db.orders
        THEN Answer(r, 404, ErrorBody("Order not found"), <<>>, db)
        ELSE Answer(r, 200, [kind |-> "products", items |-> ProductsOf(db, order_id)],
                    <<>>, db)

Next ==
    \/ get_users
    \/ \E u \in UserIds : get_user(u)
    \/ \E p \in UserPayloads : create_user(p)
    \/ \E u \in UserIds, p \in UserPayloads : update_user(u, p)
    \/ \E u \in UserIds : delete_user(u)
    \/ get_products
    \/ \E p \in ProductIds : get_product(p)
    \/ \E p \in ProductPayloads : create_product(p)
    \/ \E i \in ProductIds, p \in ProductPayloads : update_product(i, p)
    \/ \E p \in ProductIds : delete_product(p)
    \/ \E p \in OrderPayloads : create_order(p)
    \/ \E o \in OrderIds, p \in ProductIds : add_product_to_order(o, p)
    \/ \E o \in OrderIds, p \in ProductIds : remove_product_from_order(o, p)
    \/ \E u \in UserIds : get_orders_by_user(u)
    \/ \E o \in OrderIds : get_products_in_order(o)

Spec == Init /\ [][Next]_vars

(***************************************************************************)
(* The same write handlers served by several workers at once.  Each        *)
(* worker has its own session: a handler loads and validates against the   *)
(* committed store, then its commit() flushes the statements of its unit   *)
(* of work one at a time inside a transaction.  A transaction sees the     *)
(* committed store with its own statements on top; the database refuses a  *)
(* statement that conflicts with what was committed meanwhile; the         *)
(* handler calls commit() once, after its last change, and only then do    *)
(* the rows become part of the committed store.  session[w] is the         *)
(* worker's open unit of work, answered the last answer a worker sent,     *)
(* with the number of statements its transaction had flushed by then.     *)
(***************************************************************************)
TxUserPayloads ==
    {p \in UserPayloads :
        /\ Present(p.name)
        /\ p.address = Some("1 Elm Street")
        /\ p.email \in {Some(<<"a", "@", "b", ".", "c">>), Some(<<"z", "@", "b", ".", "c">>)}}
TxProductPayloads == {p \in ProductPayloads : p.product_name = Some("Widget") /\ Present(p.price)}
TxOrderPayloads == {p \in OrderPayloads : Present(p.user_id)}
TxOrderIds == 1..MaxTxOrders

CommitEveryStatement(stmts) == 1..Len(stmts)

CommitPoints(stmts) == {Len(stmts)}

Uncommitted(s) == SubSeq(s.stmts, s.committed + 1, s.done)

Finish(w, status, n) ==
    /\ session' = [session EXCEPT ![w] = Idle]
    /\ answered' = [worker |-> w, status |-> status, flushed |-> n]

Begin(w, reject, stmts, success) ==
    /\ session[w] = Idle
    /\ IF reject # 0 THEN Finish(w, reject, 0)
       ELSE IF stmts = <<>> THEN Finish(w, success, 0)
       ELSE /\ session' = [session EXCEPT ![w] =
                    [state |-> "flush", stmts |-> stmts, done |-> 0, committed |-> 0,
                     success |-> success]]
            /\ UNCHANGED answered
    /\ UNCHANGED <<db, req, resp, txlog, created>>

tx_create_user(w, payload) ==
    /\ db.next_user <= MaxUsers
    /\ Begin(w, IF NoErrors(UserErrors(payload, FALSE)) THEN 0 ELSE 400,
             CreateUserStmts(payload), 200)

tx_update_user(w, user_id, payload) ==
    IF user_id \notin DOMAIN db.users THEN Begin(w, 400, <<>>, 200)
    ELSE Begin(w, IF NoErrors(UserErrors(payload, TRUE)) THEN 0 ELSE 400,
               UpdateUserStmts(db, user_id, payload), 200)

tx_delete_user(w, user_id) ==
    IF user_id \notin DOMAIN db.users THEN Begin(w, 400, <<>>, 200)
    ELSE Begin(w, 0, DeleteUserStmts(db, user_id), 200)

tx_create_product(w, payload) ==
    /\ db.next_product <= MaxProducts
    /\ Begin(w, IF NoErrors(ProductErrors(payload, FALSE)) THEN 0 ELSE 400,
             CreateProductStmts(payload), 200)

tx_update_product(w, product_id, payload) ==
    IF product_id \notin DOMAIN db.products THEN Begin(w, 400, <<>>, 200)
    ELSE Begin(w, IF NoErrors(ProductErrors(payload, TRUE)) THEN 0 ELSE 400,
               UpdateProductStmts(db, product_id, payload), 200)

tx_delete_product(w, product_id) ==
    IF product_id \notin DOMAIN db.products THEN Begin(w, 404, <<>>, 200)
    ELSE Begin(w, 0, DeleteProductStmts(db, product_id), 200)

tx_create_order(w, payload) ==
    /\ db.next_order <= MaxTxOrders
    /\ Begin(w, IF NoErrors(OrderErrors(payload)) THEN 0 ELSE 400,
             CreateOrderStmts(payload), 201)

tx_add_product_to_order(w, order_id, product_id) ==
    IF order_id \notin DOMAIN db.orders \/ product_id \notin DOMAIN db.products
    THEN Begin(w, 400, <<>>, 200)
    ELSE Begin(w, 0, AddProductStmts(db, order_id, product_id), 200)

tx_remove_product_from_order(w, order_id, product_id) ==
    IF order_id \notin DOMAIN db.orders \/ product_id \notin DOMAIN db.products
    THEN Begin(w, 404, <<>>, 200)
    ELSE Begin(w, 0, RemoveProductStmts(db, order_id, product_id), 200)

(***************************************************************************)
(* One statement of the flush inside commit().  It runs on the committed   *)
(* store with the transaction's earlier statements replayed on top; a      *)
(* refusal rolls the transaction back and the request is answered 500.     *)
(* At a commit point the transaction's statements become the committed     *)
(* store; after the last statement the request is answered.                *)
(***************************************************************************)
tx_flush(w) ==
    /\ session[w].state = "flush"
    /\ LET s == session[w]
           n == s.done + 1
           r == Replay(Uncommitted(s) \o <<s.stmts[n]>>, db)
       IN  IF ~r.ok
           THEN /\ Finish(w, 500, s.done)
                /\ db' = db
           ELSE /\ db' = IF n \in CommitPoints(s.stmts) THEN r.db ELSE db
                /\ IF n = Len(s.stmts) THEN Finish(w, s.success, n)
                   ELSE /\ session' = [session EXCEPT ![w] =
                                [s EXCEPT !.done = n,
                                          !.committed =
                                              IF n \in CommitPoints(s.stmts) THEN n ELSE @]]
                        /\ UNCHANGED answered
    /\ UNCHANGED <<req, resp, txlog, created>>

TxNext ==
    \E w \in WorkerIds :
        \/ \E p \in TxUserPayloads : tx_create_user(w, p)
        \/ \E u \in UserIds, p \in TxUserPayloads : tx_update_user(w, u, p)
        \/ \E u \in UserIds : tx_delete_user(w, u)
        \/ \E p \in TxProductPayloads : tx_create_product(w, p)
        \/ \E i \in ProductIds, p \in TxProductPayloads : tx_update_product(w, i, p)
        \/ \E p \in ProductIds : tx_delete_product(w, p)
        \/ \E p \in TxOrderPayloads : tx_create_order(w, p)
        \/ \E o \in TxOrderIds, p \in ProductIds : tx_add_product_to_order(w, o, p)
        \/ \E o \in TxOrderIds, p \in ProductIds : tx_remove_product_from_order(w, o, p)
        \/ tx_flush(w)

TxSpec == Init /\ [][TxNext]_vars

\* C9: a write request is one atomic unit of work.  The committed store
\* changes only in the step that ends a request with its success status, and
\* then by all the statements of that request's unit of work at once; a
\* request answered 500 leaves the committed store as it was, whatever part
\* of its unit of work had been flushed and however the workers interleave.
C9_AtomicUnitOfWork ==
    /\ [][db' # db
          => \E w \in WorkerIds :
                /\ session[w].state = "flush"
                /\ session'[w] = Idle
                /\ answered' = [worker |-> w, status |-> session[w].success,
                                flushed |-> Len(session[w].stmts)]
                /\ Replay(session[w].stmts, db).ok
                /\ db' = Replay(session[w].stmts, db).db]_vars
    /\ [][\A w \in WorkerIds :
            session[w].state = "flush" /\ session'[w] = Idle
                /\ answered'.worker = w /\ answered'.status = 500
            => db' = db]_vars

C9_Witness ==
    /\ answered.status = 500
    /\ answered.flushed >= 1
    /\ \E l \in BagToSet(db.order_product) : l[1] = 1

\* A unit of work half flushed: its first statement ran, and the committed
\* store still holds the row that statement deletes.
C9_MidFlushWitness ==
    \E w \in WorkerIds :
        /\ session[w].state = "flush"
        /\ session[w].done = 1
        /\ session[w].stmts[1].k = "delete_link"
        /\ BagIn(<<session[w].stmts[1].order_id, session[w].stmts[1].product_id>>,
                 db.order_product)

(***************************************************************************)
(* Properties of the handlers.  A primed variable is the state after the   *)
(* request req' was answered by resp'; the unprimed store is the one the   *)
(* request found.                                                          *)
(***************************************************************************)
Exists(d, o, p) == o \in DOMAIN d.orders /\ p \in DOMAIN d.products

Taken(d, email) == \E u \in DOMAIN d.users : d.users[u].email = email

\* C1: a pair (order, product) is stored at most once whatever add_product and
\* remove_product requests were made; a PUT add_product for a pair that is
\* already linked answers 200 and inserts nothing; and GET /orders/{o}/products
\* lists every product of the order exactly once.
C1_LinkStoredOnce ==
    /\ [](\A l \in BagToSet(db.order_product) : CopiesIn(l, db.order_product) = 1)
    /\ [](req.op = "get_products_in_order" /\ resp.status = 200
            => \A it \in BagToSet(resp.body.items) : CopiesIn(it, resp.body.items) = 1)
    /\ [][req'.op = "add_product_to_order"
            /\ Exists(db, req'.order_id, req'.product_id)
            /\ BagIn(<<req'.order_id, req'.product_id>>, db.order_product)
          => /\ resp'.status = 200
             /\ db' = db
             /\ CopiesIn(<<req'.order_id, req'.product_id>>, db'.order_product) = 1]_vars

C1_Witness ==
    /\ req.op = "add_product_to_order"
    /\ resp.status = 200
    /\ txlog = <<>>
    /\ BagIn(<<req.order_id, req.product_id>>, db.order_product)

\* C2: DELETE remove_product for an existing order and an existing product that
\* are not linked answers 200 and leaves the order's product list and every
\* stored row unchanged.
C2_UnlinkUnlinkedIsNoop ==
    [][req'.op = "remove_product_from_order"
        /\ Exists(db, req'.order_id, req'.product_id)
        /\ ~BagIn(<<req'.order_id, req'.product_id>>, db.order_product)
      => /\ resp'.status = 200
         /\ db' = db
         /\ resp'.body.products = ProductsOf(db, req'.order_id)]_vars

C2_Witness ==
    /\ req.op = "remove_product_from_order"
    /\ resp.status = 200
    /\ txlog = <<>>
    /\ ~BagIn(<<req.order_id, req.product_id>>, db.order_product)

\* C3: no two stored users have the same email; a POST /users whose email is
\* the email of a stored user fails and leaves the users table unchanged.
C3_EmailUnique ==
    /\ [](\A u, v \in DOMAIN db.users : u # v => db.users[u].email # db.users[v].email)
    /\ [][req'.op = "create_user" /\ Present(req'.payload.email)
            /\ Taken(db, Val(req'.payload.email))
          => resp'.status >= 400 /\ db'.users = db.users]_vars

C3_Witness ==
    /\ req.op = "create_user"
    /\ \A f \in UserFields : Present(req.payload[f])
    /\ NoErrors(UserErrors(req.payload, FALSE))
    /\ Taken(db, Val(req.payload.email))
    /\ resp.status = 500
    /\ Cardinality(DOMAIN db.users) = 1

RequiredByContract == {"name", "address", "email"}

Lacking(p) == {f \in RequiredByContract : ~Present(p[f])}

\* C4: a POST /users that lacks some of the required fields name, address and
\* email is answered 400 with a mapping that has an entry for every missing
\* field, and creates no user.
C4_MissingFieldsAllReported ==
    [][req'.op = "create_user" /\ Lacking(req'.payload) # {}
      => /\ resp'.status = 400
         /\ resp'.body.kind = "errors"
         /\ Lacking(req'.payload) \subseteq DOMAIN resp'.body.errors
         /\ db'.users = db.users]_vars

ValidSupplied(p) ==
    /\ Present(p.address)
          => Len(Val(p.address)) >= AddressMin /\ Len(Val(p.address)) <= AddressMax
    /\ Present(p.email) => EmailOk(Val(p.email))

\* C5: PUT /users/{id} on an existing user with a valid payload (every supplied
\* field passes validation, a supplied email is not the email of another user)
\* answers 200, sets exactly the supplied fields to the supplied values and
\* leaves the unsupplied fields and every other row as they were; the same
\* request sent again changes nothing more.
C5_PartialUpdate ==
    /\ [][req'.op = "update_user"
            /\ req'.user_id \in DOMAIN db.users
            /\ ValidSupplied(req'.payload)
            /\ (Present(req'.payload.email)
                  => \A v \in DOMAIN db.users \ {req'.user_id} :
                        db.users[v].email # Val(req'.payload.email))
          => /\ resp'.status = 200
             /\ DOMAIN db'.users = DOMAIN db.users
             /\ \A f \in UserFields :
                    db'.users[req'.user_id][f] =
                        IF Present(req'.payload[f]) THEN Val(req'.payload[f])
                        ELSE db.users[req'.user_id][f]
             /\ \A v \in DOMAIN db.users \ {req'.user_id} : db'.users[v] = db.users[v]
             /\ db'.orders = db.orders /\ db'.products = db.products
             /\ db'.order_product = db.order_product]_vars
    /\ [][req.op = "update_user" /\ resp.status = 200 /\ req' = req
          => db' = db /\ resp' = resp]_vars

C5_Witness ==
    /\ req.op = "update_user"
    /\ resp.status = 200
    /\ Present(req.payload.address)
    /\ ~Present(req.payload.name) /\ ~Present(req.payload.email)
    /\ txlog # <<>>
    /\ db.users[req.user_id].address = Val(req.payload.address)

\* C6: a POST /users with a valid payload (name, address and email supplied,
\* each passing validation, the email not in use) answers 200 with the id of a
\* new user, and a GET /users/{id} that directly follows it with this id
\* answers 200 with the id, name, address and email of the created user and an
\* empty orders list.
C6_CreateThenGet ==
    /\ [][req'.op = "create_user"
            /\ (\A f \in UserFields : Present(req'.payload[f]))
            /\ ValidSupplied(req'.payload)
            /\ ~Taken(db, Val(req'.payload.email))
          => /\ resp'.status = 200
             /\ resp'.body.id \notin DOMAIN db.users
             /\ resp'.body.id \in DOMAIN db'.users]_vars
    /\ [][req.op = "create_user" /\ resp.status = 200
            /\ req'.op = "get_user" /\ req'.user_id = resp.body.id
          => /\ resp'.status = 200
             /\ resp'.body.id = resp.body.id
             /\ resp'.body.name = Val(req.payload.name)
             /\ resp'.body.address = Val(req.payload.address)
             /\ resp'.body.email = Val(req.payload.email)
             /\ resp'.body.orders = {}]_vars

C6_Witness ==
    /\ req.op = "get_user"
    /\ created # 0
    /\ req.user_id = created
    /\ resp.status = 200
    /\ resp.body.orders = {}
    /\ db.orders # EmptyTable

\* C7: GET, PUT and DELETE on /users/{id} with an id that matches no stored
\* user are answered 400 with an error body and leave the store unchanged.
C7_AbsentUserIs400 ==
    [][req'.op \in {"get_user", "update_user", "delete_user"}
        /\ req'.user_id \notin DOMAIN db.users
      => /\ resp'.status = 400
         /\ resp'.body.kind = "error"
         /\ db' = db]_vars

\* C8: an order row appears only through a POST /orders whose user_id is
\* supplied and is the id of a user stored at that moment; a POST /orders
\* without user_id, or with one that matches no stored user, creates no order.
C8_OrderNeedsUser ==
    /\ [][db'.orders # db.orders
          => /\ req'.op = "create_order"
             /\ Present(req'.payload.user_id)
             /\ Val(req'.payload.user_id) \in DOMAIN db.users
             /\ resp'.status = 201
             /\ db'.orders = With(db.orders, resp'.body.id,
                                  [user_id |-> Val(req'.payload.user_id)])]_vars
    /\ [][req'.op = "create_order"
            /\ (~Present(req'.payload.user_id)
                \/ Val(req'.payload.user_id) \notin DOMAIN db.users)
          => db'.orders = db.orders /\ resp'.status >= 400]_vars

C8_Witness ==
    /\ req.op = "create_order"
    /\ resp.status = 201
    /\ resp.body.id \in DOMAIN db.orders
    /\ db.orders[resp.body.id].user_id \in DOMAIN db.users

\* The other case of C8: a POST /orders for a user that does not exist, refused
\* by the foreign key at commit.
C8_RefusedWitness ==
    /\ req.op = "create_order"
    /\ resp.status = 500
    /\ Val(req.payload.user_id) \notin DOMAIN db.users

\* C10: every stored (order_id, product_id) pair refers to a stored order and
\* a stored product, and every stored order's user_id to a stored user, also
\* after a product that is linked or a user that owns orders was asked to be
\* deleted.
C10_NoDanglingReference ==
    /\ \A l \in BagToSet(db.order_product) :
          l[1] \in DOMAIN db.orders /\ l[2] \in DOMAIN db.products
    /\ \A o \in DOMAIN db.orders : db.orders[o].user_id \in DOMAIN db.users

C10_Witness ==
    /\ req.op = "delete_product"
    /\ resp.status = 200
    /\ Len(txlog) = 2
    /\ txlog[1].k = "delete_link"
    /\ db.orders # EmptyTable

\* The other case of C10: a DELETE of a user that owns orders, refused at commit.
C10_UserWitness ==
    /\ req.op = "delete_user"
    /\ resp.status = 500
    /\ OrdersOfUser(db, req.user_id) # {}

====
